---- MODULE Spec2Model ----
(***************************************************************************)
(* libsyncast: the key-event loop of main.rs (fn main) and the second      *)
(* key handler of gui.rs (UI::handle_events), over the AppState struct.    *)
(*                                                                         *)
(* Rust indices are 0-based; sequences here are 1-based, so vec[i] is      *)
(* seq[i + 1].  usize arithmetic keeps a width (UsizeBits): `len() - 1`    *)
(* on an empty Vec panics when the build has overflow checks (debug        *)
(* profile) and wraps to the largest usize when it has none (release).     *)
(***************************************************************************)
EXTENDS Integers, Sequences, FiniteSets, TLC

\* ---------------------------------------------------------------- bounds
MaxFolders == 3      \* folders loaded from feeds.txt: 0..MaxFolders
MaxHistory == 2      \* entries loaded from history.txt: 0..MaxHistory
MaxFavInit == 1      \* entries loaded from the favorites file: 0..MaxFavInit
MaxFavorites == 2    \* cap on the in-memory favorites list
MaxSel == 2          \* cap on a selection index that runs away after a wrap
UsizeBits == 8       \* modelled width of usize
WindowHeight == 2    \* rows of the list area of the terminal
MaxLines == 2        \* lines of a generated input file: 0..MaxLines
MaxLineLen == 2      \* characters of a generated line: 0..MaxLineLen

UsizeModulus == 2 ^ UsizeBits

\* ------------------------------------------------------------ data model
\* HistoryItem / FavoriteItem { title, url }
ItemSet == { [title |-> "t1", url |-> "u1"], [title |-> "t2", url |-> "u2"] }

\* Folder { name, feeds }; the n folders of a config file with n sections
FolderList(n) == [i \in 1..n |-> [name |-> i, feeds |-> <<>>]]

\* the n entries of a favorites file with n well-formed lines
FavoriteList(n) ==
    [i \in 1..n |-> IF i % 2 = 1 THEN [title |-> "t1", url |-> "u1"]
                                ELSE [title |-> "t2", url |-> "u2"]]

SeqsUpTo(S, n) == UNION { [1..k -> S] : k \in 0..n }

\* key.code values that the two match statements distinguish
KeyCodes == {"j", "Down", "k", "Up", "Tab", "h", "F", "f", "q", "other"}

VARIABLES
    app_state,        \* the AppState struct
    driver,           \* "main": the loop of fn main; "gui": UI::handle_events
    overflow_checks,  \* TRUE: arithmetic overflow panics; FALSE: it wraps
    outcome,          \* "running", or how the loop ended
    raw_mode,         \* terminal raw mode enabled
    alternate_screen, \* terminal is on the alternate screen
    key,              \* key code matched in the latest iteration, or "none"
    save_result,      \* result of save_to_favorites in the latest iteration
    save_requests,    \* items passed to save_to_favorites, in call order
    favorites_file,   \* entries of the favorites file
    disk,             \* the file a load function is about to open
    load_pc,          \* "idle", "start" or "done"
    load_fn,          \* the load function that ran, or "none"
    load_in,          \* the folder list that was saved before the load
    load_out          \* the Result the load function returned

loadvars == <<disk, load_pc, load_fn, load_in, load_out>>

vars == <<app_state, driver, overflow_checks, outcome, raw_mode,
          alternate_screen, key, save_result, save_requests, favorites_file,
          loadvars>>

\* ------------------------------------------------------- usize arithmetic
\* a - b on usize without overflow checks (release profile)
WrappingSub(a, b) == (a - b + UsizeModulus) % UsizeModulus

\* a - b on usize with overflow checks panics when a < b
SubOverflows(a, b) == a < b

\* usize::saturating_sub
SaturatingSub(a, b) == IF a < b THEN 0 ELSE a - b

\* Vec::get(i): <<>> for None, <<item>> for Some(item)
VecGet(v, i) == IF i < Len(v) THEN <<v[i + 1]>> ELSE <<>>

\* -------------------------------------------------- fn main: match key.code
Continue(s) == [app |-> s, flow |-> "continue", request |-> <<>>]
Panic(s) == [app |-> s, flow |-> "panic", request |-> <<>>]

\* KeyCode::Char('j') | KeyCode::Down
MainKeyDown(s, oc) ==
    IF s.show_favorites
    THEN IF oc /\ SubOverflows(Len(s.favorites), 1)
         THEN Panic(s)
         ELSE IF s.selected_favorite < WrappingSub(Len(s.favorites), 1)
              THEN Continue([s EXCEPT !.selected_favorite = @ + 1])
              ELSE Continue(s)
    ELSE IF s.show_history
         THEN Continue(s)
         ELSE IF oc /\ SubOverflows(Len(s.folders), 1)
              THEN Panic(s)
              ELSE IF s.selected_folder < WrappingSub(Len(s.folders), 1)
                   THEN Continue([s EXCEPT !.selected_folder = @ + 1])
                   ELSE Continue(s)

\* KeyCode::Char('k') | KeyCode::Up
MainKeyUp(s) ==
    IF s.show_favorites
    THEN IF s.selected_favorite > 0
         THEN Continue([s EXCEPT !.selected_favorite = @ - 1])
         ELSE Continue(s)
    ELSE IF ~s.show_history /\ s.selected_folder > 0
         THEN Continue([s EXCEPT !.selected_folder = @ - 1])
         ELSE Continue(s)

\* variant of the 'h' arm that forgets `show_favorites = false`
MainKeyH_KeepFavorites(s) ==
    Continue([s EXCEPT !.show_history = ~s.show_history])

\* variant of the 'h' arm that sets show_history instead of toggling it
MainKeyH_SetOnly(s) ==
    Continue([s EXCEPT !.show_history = TRUE,
                       !.show_favorites = FALSE])

\* KeyCode::Char('h')
MainKeyH(s) ==
    Continue([s EXCEPT !.show_history = ~s.show_history,
                       !.show_favorites = FALSE])

\* KeyCode::Char('F')
MainKeyShiftF(s) ==
    Continue([s EXCEPT !.show_favorites = ~s.show_favorites,
                       !.show_history = FALSE])

\* save_to_favorites(title, url) -> Result: appends one line, or fails
SaveToFavorites(file, item, ok) ==
    IF ok THEN [result |-> "ok", file |-> Append(file, item)]
          ELSE [result |-> "err", file |-> file]

\* variant of the 'f' arm that indexes history[selected_folder] instead of
\* using Vec::get, so an index past the end panics
MainKeyF_Indexing(s, save_ok) ==
    IF s.show_history
    THEN IF s.selected_folder < Len(s.history)
         THEN LET history_item == s.history[s.selected_folder + 1] IN
              IF save_ok
              THEN [app |-> [s EXCEPT !.favorites = Append(@, history_item)],
                    flow |-> "continue", request |-> <<history_item>>]
              ELSE [app |-> s, flow |-> "err", request |-> <<history_item>>]
         ELSE Panic(s)
    ELSE Continue(s)

\* variant of the 'f' arm without the `if app_state.show_history` test
MainKeyF_AnyView(s, save_ok) ==
    LET got == VecGet(s.history, s.selected_folder) IN
    IF got # <<>>
    THEN LET history_item == got[1] IN
         IF save_ok
         THEN [app |-> [s EXCEPT !.favorites = Append(@, history_item)],
               flow |-> "continue", request |-> <<history_item>>]
         ELSE [app |-> s, flow |-> "err", request |-> <<history_item>>]
    ELSE Continue(s)

\* variant of the 'f' arm that inserts the new favorite at the front
MainKeyF_Prepend(s, save_ok) ==
    IF s.show_history
    THEN LET got == VecGet(s.history, s.selected_folder) IN
         IF got # <<>>
         THEN LET history_item == got[1] IN
              IF save_ok
              THEN [app |-> [s EXCEPT !.favorites = <<history_item>> \o @],
                    flow |-> "continue", request |-> <<history_item>>]
              ELSE [app |-> s, flow |-> "err", request |-> <<history_item>>]
         ELSE Continue(s)
    ELSE Continue(s)

\* KeyCode::Char('f'); save_ok is the outcome of the write, if one is made
MainKeyF(s, save_ok) ==
    IF s.show_history
    THEN LET got == VecGet(s.history, s.selected_folder) IN
         IF got # <<>>
         THEN LET history_item == got[1] IN
              IF save_ok
              THEN [app |-> [s EXCEPT !.favorites = Append(@, history_item)],
                    flow |-> "continue", request |-> <<history_item>>]
              ELSE [app |-> s, flow |-> "err", request |-> <<history_item>>]
         ELSE Continue(s)
    ELSE Continue(s)

\* KeyCode::Char('q') => break 'mainloop
MainKeyQ(s) == [app |-> s, flow |-> "break", request |-> <<>>]

MainMatch(s, k, oc, save_ok) ==
    CASE k \in {"j", "Down"} -> MainKeyDown(s, oc)
      [] k \in {"k", "Up"}   -> MainKeyUp(s)
      [] k = "h"             -> MainKeyH(s)
      [] k = "F"             -> MainKeyShiftF(s)
      [] k = "f"             -> MainKeyF(s, save_ok)
      [] k = "q"             -> MainKeyQ(s)
      [] OTHER               -> Continue(s)

\* ------------------------------------------ UI::handle_events: match key.code
Running(s) == [app |-> s, ret |-> FALSE]

\* KeyCode::Char('j') | KeyCode::Down
GuiKeyDown(s) ==
    IF s.show_favorites
    THEN IF s.selected_favorite < SaturatingSub(Len(s.favorites), 1)
         THEN Running([s EXCEPT !.selected_favorite = @ + 1])
         ELSE Running(s)
    ELSE IF ~s.show_history
            /\ s.selected_folder < SaturatingSub(Len(s.folders), 1)
         THEN Running([s EXCEPT !.selected_folder = @ + 1])
         ELSE Running(s)

\* KeyCode::Char('k') | KeyCode::Up
GuiKeyUp(s) ==
    IF s.show_favorites
    THEN IF s.selected_favorite > 0
         THEN Running([s EXCEPT !.selected_favorite = @ - 1])
         ELSE Running(s)
    ELSE IF ~s.show_history /\ s.selected_folder > 0
         THEN Running([s EXCEPT !.selected_folder = @ - 1])
         ELSE Running(s)

\* variant of the Tab arm that resets the folder selection on every switch
GuiKeyTab_ResetSelection(s) ==
    IF ~s.show_history /\ ~s.show_favorites
    THEN Running([s EXCEPT !.show_history = TRUE, !.selected_folder = 0])
    ELSE IF s.show_history
         THEN Running([s EXCEPT !.show_history = FALSE,
                                !.show_favorites = TRUE,
                                !.selected_folder = 0])
         ELSE Running([s EXCEPT !.show_favorites = FALSE,
                                !.selected_folder = 0])

\* variant of the Tab arm that goes from Folders straight to Favorites
GuiKeyTab_SkipHistory(s) ==
    IF ~s.show_history /\ ~s.show_favorites
    THEN Running([s EXCEPT !.show_favorites = TRUE])
    ELSE IF s.show_history
         THEN Running([s EXCEPT !.show_history = FALSE,
                                !.show_favorites = TRUE])
         ELSE Running([s EXCEPT !.show_favorites = FALSE])

\* variant of the Tab arm that leaves show_history set when it enters Favorites
GuiKeyTab_KeepHistory(s) ==
    IF ~s.show_history /\ ~s.show_favorites
    THEN Running([s EXCEPT !.show_history = TRUE])
    ELSE IF s.show_history /\ ~s.show_favorites
         THEN Running([s EXCEPT !.show_favorites = TRUE])
         ELSE Running([s EXCEPT !.show_favorites = FALSE])

\* KeyCode::Tab
GuiKeyTab(s) ==
    IF ~s.show_history /\ ~s.show_favorites
    THEN Running([s EXCEPT !.show_history = TRUE])
    ELSE IF s.show_history
         THEN Running([s EXCEPT !.show_history = FALSE,
                                !.show_favorites = TRUE])
         ELSE Running([s EXCEPT !.show_favorites = FALSE])

\* KeyCode::Char('h')
GuiKeyH(s) ==
    Running([s EXCEPT !.show_history = ~s.show_history,
                      !.show_favorites = FALSE])

\* KeyCode::Char('F')
GuiKeyShiftF(s) ==
    Running([s EXCEPT !.show_favorites = ~s.show_favorites,
                      !.show_history = FALSE])

\* KeyCode::Char('f'): returns Ok(false) in History, falls through otherwise
GuiKeyF(s) == Running(s)

\* KeyCode::Char('q') => return Ok(true)
GuiKeyQ(s) == [app |-> s, ret |-> TRUE]

GuiMatch(s, k) ==
    CASE k \in {"j", "Down"} -> GuiKeyDown(s)
      [] k \in {"k", "Up"}   -> GuiKeyUp(s)
      [] k = "Tab"           -> GuiKeyTab(s)
      [] k = "h"             -> GuiKeyH(s)
      [] k = "F"             -> GuiKeyShiftF(s)
      [] k = "f"             -> GuiKeyF(s)
      [] k = "q"             -> GuiKeyQ(s)
      [] OTHER               -> Running(s)

\* UI::check_favorite_action
check_favorite_action(s) == s.show_history

\* UI::render_right_panel: the two indexed lookups; "panic" when out of range
render_right_panel(s) ==
    IF s.show_favorites /\ Len(s.favorites) # 0
    THEN IF s.selected_favorite < Len(s.favorites) THEN "ok" ELSE "panic"
    ELSE IF s.show_history /\ Len(s.history) # 0
         THEN "ok"
         ELSE IF Len(s.folders) # 0
              THEN IF s.selected_folder < Len(s.folders) THEN "ok" ELSE "panic"
              ELSE "ok"

\* ------------------------------------------------ files and their lines
\* a line is a sequence of characters, as BufRead::lines yields it
Alphabet == {"a", ":", " "}

Strings(n) == SeqsUpTo(Alphabet, n)

\* b"default_folder:\nhttps://example.com/rss\n"
DefaultLines ==
    << <<"d", "e", "f", "a", "u", "l", "t", "_", "f", "o", "l", "d",
      "e", "r", ":">>,
       <<"h", "t", "t", "p", "s", ":", "/", "/", "e", "x", "a", "m",
      "p", "l", "e", ".", "c", "o", "m", "/", "r", "s", "s">> >>

\* a config file with two sections of one feed each
ScenarioLines ==
    << <<"N", "e", "w", "s", ":">>,
       <<"h", "t", "t", "p", ":", "/", "/", "a", ".", "e", "x", "a",
      "m", "p", "l", "e", "/", "f", "e", "e", "d">>,
       <<"M", "u", "s", "i", "c", ":">>,
       <<"h", "t", "t", "p", ":", "/", "/", "b", ".", "e", "x", "a",
      "m", "p", "l", "e", "/", "f", "e", "e", "d">> >>

\* a history file with a well-formed line, a title with spaces and a line
\* without a space
ScenarioEntries ==
    << <<"a", " ", "u">>, <<"a", " ", "b", " ", "u">>, <<"a", "u">> >>

InputFiles == SeqsUpTo(Strings(MaxLineLen), MaxLines)
                 \cup {ScenarioLines, ScenarioEntries}

\* str::ends_with(':')
EndsWithColon(line) == Len(line) > 0 /\ line[Len(line)] = ":"

\* str::trim_end_matches(':'): strips every trailing ':'
RECURSIVE trim_end_matches(_)
trim_end_matches(line) ==
    IF EndsWithColon(line)
    THEN trim_end_matches(SubSeq(line, 1, Len(line) - 1))
    ELSE line

\* line.trim().is_empty()
TrimIsEmpty(line) == \A i \in 1..Len(line) : line[i] = " "

\* the `for line in reader.lines()` loop of load_folders_conf and the push of
\* the last folder; current_folder is <<>> for None, <<folder>> for Some
RECURSIVE ParseFolders(_, _, _, _)
ParseFolders(lines, i, folders, current_folder) ==
    IF i > Len(lines) THEN folders \o current_folder
    ELSE LET line == lines[i] IN
         IF EndsWithColon(line)
         THEN ParseFolders(lines, i + 1, folders \o current_folder,
                           << [name |-> trim_end_matches(line),
                               feeds |-> <<>>] >>)
         ELSE IF current_folder # <<>> /\ ~TrimIsEmpty(line)
              THEN ParseFolders(lines, i + 1, folders,
                      << [current_folder[1] EXCEPT !.feeds = Append(@, line)] >>)
              ELSE ParseFolders(lines, i + 1, folders, current_folder)

\* File::open: succeeds on a file that exists and is readable
OpenOk(d) == d.state = "ok"

\* File::create: creates or truncates when the path is writable; the
\* permissions of an existing file stay as they are
CreateOk(d) == d.writable

Created(d, lines) ==
    [state |-> IF d.state = "missing" THEN "ok" ELSE d.state,
     writable |-> d.writable, lines |-> lines]

\* load_folders_conf: the Result and the file it leaves behind
load_folders_conf(d) ==
    IF OpenOk(d)
    THEN [out |-> [ok |-> TRUE, value |-> ParseFolders(d.lines, 1, <<>>, <<>>)],
          disk |-> d]
    ELSE IF ~CreateOk(d)
         THEN [out |-> [ok |-> FALSE, value |-> <<>>], disk |-> d]
         ELSE LET f == Created(d, DefaultLines) IN
              IF OpenOk(f)
              THEN [out |-> [ok |-> TRUE,
                             value |-> ParseFolders(f.lines, 1, <<>>, <<>>)],
                    disk |-> f]
              ELSE [out |-> [ok |-> FALSE, value |-> <<>>], disk |-> f]

\* position of the first ' ' of a line at or after i, 0 when there is none
RECURSIVE FirstSpace(_, _)
FirstSpace(line, i) ==
    IF i > Len(line) THEN 0
    ELSE IF line[i] = " " THEN i ELSE FirstSpace(line, i + 1)

\* position of the last ' ' of a line at or before i, 0 when there is none
RECURSIVE LastSpace(_, _)
LastSpace(line, i) ==
    IF i < 1 THEN 0
    ELSE IF line[i] = " " THEN i ELSE LastSpace(line, i - 1)

\* variant that splits at the last ' ' (rsplitn read in forward order)
rsplitn2(line) ==
    LET p == LastSpace(line, Len(line)) IN
    IF p = 0 THEN <<line>>
    ELSE <<SubSeq(line, 1, p - 1), SubSeq(line, p + 1, Len(line))>>

\* line.splitn(2, ' ').collect(): one part, or the parts around the first ' '
splitn2(line) ==
    LET p == FirstSpace(line, 1) IN
    IF p = 0 THEN <<line>>
    ELSE <<SubSeq(line, 1, p - 1), SubSeq(line, p + 1, Len(line))>>

\* the filter_map of load_history and load_favorites over the lines read
RECURSIVE ParseEntries(_, _)
ParseEntries(lines, i) ==
    IF i > Len(lines) THEN <<>>
    ELSE LET parts == splitn2(lines[i]) IN
         IF Len(parts) = 2
         THEN << [title |-> parts[1], url |-> parts[2]] >>
                 \o ParseEntries(lines, i + 1)
         ELSE ParseEntries(lines, i + 1)

\* load_history on a file that File::open opens
load_history(d) == [ok |-> TRUE, value |-> ParseEntries(d.lines, 1)]

\* load_favorites on a file that File::open opens
load_favorites(d) == [ok |-> TRUE, value |-> ParseEntries(d.lines, 1)]

\* save(folders): the name followed by ':' on one line, then one feed URL
\* per line
RECURSIVE WriteConf(_)
WriteConf(folders) ==
    IF folders = <<>> THEN <<>>
    ELSE << folders[1].name \o <<":">> >> \o folders[1].feeds
            \o WriteConf(Tail(folders))

\* the folder lists that are saved: names and URLs of up to MaxLineLen - 1
\* characters, at most one feed per folder, up to MaxLines - 1 folders
SavedFolders ==
    [name : Strings(MaxLineLen - 1),
     feeds : SeqsUpTo(Strings(MaxLineLen - 1), 1)]

SavedFolderLists == SeqsUpTo(SavedFolders, MaxLines - 1)

\* ----------------------------------------------------- the load functions
NoResult == [ok |-> FALSE, value |-> <<>>]

\* nothing is being loaded (the event loop is running)
LoadIdle ==
    /\ disk = [state |-> "missing", writable |-> FALSE, lines |-> <<>>]
    /\ load_pc = "idle"
    /\ load_fn = "none"
    /\ load_in = <<>>
    /\ load_out = NoResult

\* the event loop has not started
LoopIdle ==
    /\ app_state = [folders |-> <<>>, selected_folder |-> 0,
                    history |-> <<>>, favorites |-> <<>>,
                    show_history |-> FALSE, show_favorites |-> FALSE,
                    selected_favorite |-> 0]
    /\ driver = "none"
    /\ overflow_checks = FALSE
    /\ outcome = "loading"
    /\ raw_mode = FALSE
    /\ alternate_screen = FALSE
    /\ key = "none"
    /\ save_result = "none"
    /\ save_requests = <<>>
    /\ favorites_file = <<>>

loopvars == <<app_state, driver, overflow_checks, outcome, raw_mode,
              alternate_screen, key, save_result, save_requests,
              favorites_file>>

\* a load function is about to run on a file that is missing, unreadable
\* (permission denied) or readable
LoadInit ==
    /\ LoopIdle
    /\ \/ /\ disk \in [state : {"missing"}, writable : BOOLEAN,
                       lines : {<<>>}]
       \/ /\ disk \in [state : {"unreadable", "ok"}, writable : BOOLEAN,
                       lines : InputFiles]
    /\ load_pc = "start"
    /\ load_fn = "none"
    /\ load_in = <<>>
    /\ load_out = NoResult

\* fn load_folders_conf
LoadFoldersConf ==
    /\ load_pc = "start"
    /\ LET r == load_folders_conf(disk)
       IN /\ load_out' = r.out
          /\ disk' = r.disk
    /\ load_fn' = "load_folders_conf"
    /\ load_pc' = "done"
    /\ UNCHANGED <<load_in, loopvars>>

\* fn load_history, when File::open succeeds
LoadHistory ==
    /\ load_pc = "start"
    /\ OpenOk(disk)
    /\ load_out' = load_history(disk)
    /\ load_fn' = "load_history"
    /\ load_pc' = "done"
    /\ UNCHANGED <<disk, load_in, loopvars>>

\* fn load_favorites, when File::open succeeds
LoadFavorites ==
    /\ load_pc = "start"
    /\ OpenOk(disk)
    /\ load_out' = load_favorites(disk)
    /\ load_fn' = "load_favorites"
    /\ load_pc' = "done"
    /\ UNCHANGED <<disk, load_in, loopvars>>

\* save(folders) into a new file, then load_folders_conf
SaveThenLoad ==
    /\ load_pc = "start"
    /\ disk.state = "missing"
    /\ disk.writable
    /\ \E folders \in SavedFolderLists :
         LET r == load_folders_conf(Created(disk, WriteConf(folders)))
         IN /\ load_in' = folders
            /\ load_out' = r.out
            /\ disk' = r.disk
    /\ load_fn' = "save_then_load"
    /\ load_pc' = "done"
    /\ UNCHANGED loopvars

LoadNext ==
    \/ LoadFoldersConf
    \/ LoadHistory
    \/ LoadFavorites
    \/ SaveThenLoad

SpecLoad == LoadInit /\ [][LoadNext]_vars

\* the list widgets are drawn with render_widget and no ListState, so every
\* frame starts at the first item: the offset of the visible window
ScrollOffset(s) == 0

\* ------------------------------------------------------------------ state
\* AppState as built at the top of fn main, terminal already set up
Init ==
    /\ \E nf \in 0..MaxFolders, h \in SeqsUpTo(ItemSet, MaxHistory),
          nv \in 0..MaxFavInit :
         /\ app_state = [folders |-> FolderList(nf),
                         selected_folder |-> 0,
                         history |-> h,
                         favorites |-> FavoriteList(nv),
                         show_history |-> FALSE,
                         show_favorites |-> FALSE,
                         selected_favorite |-> 0]
         /\ favorites_file = FavoriteList(nv)
    /\ driver \in {"main", "gui"}
    /\ overflow_checks \in BOOLEAN
    /\ outcome = "running"
    /\ raw_mode = TRUE
    /\ alternate_screen = TRUE
    /\ key = "none"
    /\ save_result = "none"
    /\ save_requests = <<>>
    /\ LoadIdle

\* the caps that keep the model finite
WithinCaps(s) ==
    /\ s.selected_folder <= MaxSel
    /\ s.selected_favorite <= MaxSel
    /\ Len(s.favorites) <= MaxFavorites

\* one iteration of 'mainloop in which draw, poll and read succeed and a key
\* event is matched
MainKey(k, save_ok) ==
    /\ driver = "main"
    /\ outcome = "running"
    /\ LET r == MainMatch(app_state, k, overflow_checks, save_ok)
           saved == IF r.request = <<>>
                    THEN [result |-> "none", file |-> favorites_file]
                    ELSE SaveToFavorites(favorites_file, r.request[1], save_ok)
       IN /\ WithinCaps(r.app)
          /\ app_state' = r.app
          /\ key' = k
          /\ save_result' = saved.result
          /\ favorites_file' = saved.file
          /\ save_requests' = save_requests \o r.request
          /\ outcome' = CASE r.flow = "continue" -> "running"
                          [] r.flow = "break"    -> "ok"
                          [] r.flow = "err"      -> "err_save"
                          [] r.flow = "panic"    -> "panic"
          \* after the loop: disable_raw_mode, LeaveAlternateScreen
          /\ raw_mode' = IF r.flow = "break" THEN FALSE ELSE raw_mode
          /\ alternate_screen' = IF r.flow = "break" THEN FALSE
                                 ELSE alternate_screen
    /\ UNCHANGED <<driver, overflow_checks, loadvars>>

\* an iteration of 'mainloop that ends at a `?`: terminal.draw, event::poll or
\* event::read returned Err, and main returns it
MainIoError(where) ==
    /\ driver = "main"
    /\ outcome = "running"
    /\ outcome' = where
    /\ key' = "none"
    /\ save_result' = "none"
    /\ UNCHANGED <<app_state, driver, overflow_checks, raw_mode,
                   alternate_screen, save_requests, favorites_file, loadvars>>

MainDrawError == MainIoError("err_draw")
MainPollError == MainIoError("err_poll")
MainReadError == MainIoError("err_read")

\* one call of UI::handle_events in which poll and read succeed
GuiKey(k) ==
    /\ driver = "gui"
    /\ outcome = "running"
    /\ LET r == GuiMatch(app_state, k)
       IN /\ WithinCaps(r.app)
          /\ app_state' = r.app
          /\ outcome' = IF r.ret THEN "ret_true" ELSE "running"
    /\ key' = k
    /\ save_result' = "none"
    /\ UNCHANGED <<driver, overflow_checks, raw_mode, alternate_screen,
                   save_requests, favorites_file, loadvars>>

\* UI::handle_events returns Err from event::poll or event::read
GuiIoError ==
    /\ driver = "gui"
    /\ outcome = "running"
    /\ outcome' = "ret_err"
    /\ key' = "none"
    /\ save_result' = "none"
    /\ UNCHANGED <<app_state, driver, overflow_checks, raw_mode,
                   alternate_screen, save_requests, favorites_file, loadvars>>

\* UI::cleanup, called once handle_events has signalled quit
UICleanup ==
    /\ driver = "gui"
    /\ outcome = "ret_true"
    /\ raw_mode' = FALSE
    /\ alternate_screen' = FALSE
    /\ outcome' = "ok"
    /\ key' = "none"
    /\ save_result' = "none"
    /\ UNCHANGED <<app_state, driver, overflow_checks, save_requests,
                   favorites_file, loadvars>>

Next ==
    \/ \E k \in KeyCodes, save_ok \in BOOLEAN : MainKey(k, save_ok)
    \/ MainDrawError
    \/ MainPollError
    \/ MainReadError
    \/ \E k \in KeyCodes : GuiKey(k)
    \/ GuiIoError
    \/ UICleanup

Spec == Init /\ [][Next]_vars

\* ------------------------------------------------------------- type check
TypeOK ==
    /\ app_state.selected_folder \in 0..MaxSel
    /\ app_state.selected_favorite \in 0..MaxSel
    /\ app_state.show_history \in BOOLEAN
    /\ app_state.show_favorites \in BOOLEAN
    /\ Len(app_state.favorites) <= MaxFavorites
    /\ outcome \in {"running", "ok", "err_draw", "err_poll", "err_read",
                    "err_save", "panic", "ret_true", "ret_err"}
    /\ key \in KeyCodes \cup {"none"}
    /\ save_result \in {"none", "ok", "err"}

\* ----------------------------------------------------------------- views
MoveKeys == {"j", "Down", "k", "Up"}
ViewKeys == {"Tab", "h", "F"}

InFolders(s) == ~s.show_favorites /\ ~s.show_history
InFavorites(s) == s.show_favorites
InHistory(s) == ~s.show_favorites /\ s.show_history

Range(q) == { q[i] : i \in 1..Len(q) }

\* main returned (Ok or Err through a `?`)
MainReturned ==
    outcome \in {"ok", "err_draw", "err_poll", "err_read", "err_save"}

\* ---------------------------------------------------------------- claims

\* C1: after any sequence of key events, every non-empty list (folders,
\* favorites) has its selected index within 0..length-1, so the indexed
\* lookups of render_right_panel are in range.
C1_SelectionInRange ==
    /\ Len(app_state.folders) > 0
          => app_state.selected_folder < Len(app_state.folders)
    /\ Len(app_state.favorites) > 0
          => app_state.selected_favorite < Len(app_state.favorites)
    /\ render_right_panel(app_state) = "ok"

\* C2: when the active view's list is empty, a MoveDown or MoveUp event
\* leaves its selected index at 0 and the transition does not fail.
C2_EmptyListMoveIsNoOp ==
    key \in MoveKeys =>
        /\ (InFolders(app_state) /\ app_state.folders = <<>>)
              => (app_state.selected_folder = 0 /\ outcome # "panic")
        /\ (InFavorites(app_state) /\ app_state.favorites = <<>>)
              => (app_state.selected_favorite = 0 /\ outcome # "panic")

\* C3: show_history and show_favorites are never both true.
C3_ViewsExclusive ==
    ~(app_state.show_history /\ app_state.show_favorites)

\* C3 witness: History was entered with h (from Folders or from Favorites).
C3_Witness ==
    key = "h" /\ app_state.show_history /\ ~app_state.show_favorites

\* C4: a view-switching event (Tab, h, F) leaves selected_folder and
\* selected_favorite unchanged.
C4_ViewSwitchKeepsSelection ==
    [][key' \in ViewKeys =>
         /\ app_state'.selected_folder = app_state.selected_folder
         /\ app_state'.selected_favorite = app_state.selected_favorite]_vars

\* C4 witness: back in Folders through a view switch with a folder other
\* than the first one still selected.
C4_Witness ==
    /\ key \in ViewKeys
    /\ InFolders(app_state)
    /\ app_state.selected_folder > 0
    /\ app_state.selected_folder < Len(app_state.folders)

\* C5: f in the History view with an empty History list leaves the Favorites
\* list unchanged, attempts no persistence and keeps the loop running.
C5_PromoteOnEmptyHistory ==
    [][(key' = "f" /\ app_state.show_history /\ app_state.history = <<>>) =>
         /\ app_state'.favorites = app_state.favorites
         /\ save_requests' = save_requests
         /\ favorites_file' = favorites_file
         /\ save_result' = "none"
         /\ outcome' = "running"]_vars

\* C5 witness: f was handled in the History view with no history entries.
C5_Witness ==
    /\ key = "f"
    /\ app_state.show_history
    /\ app_state.history = <<>>
    /\ outcome = "running"

\* C6: f in the History view with a non-empty History list appends exactly
\* one item of History to the end of Favorites and requests its persistence,
\* whatever the folder selection index is.  Stated for the loop of fn main,
\* for a folder selection that is a valid index into folders, and for the
\* iterations in which the write does not fail.
C6_PromoteAppendsSelected ==
    [][(/\ key' = "f"
        /\ driver = "main"
        /\ app_state.show_history
        /\ app_state.history # <<>>
        /\ app_state.selected_folder < Len(app_state.folders)
        /\ save_result' # "err") =>
         \E item \in Range(app_state.history) :
            /\ app_state'.favorites = Append(app_state.favorites, item)
            /\ save_requests' = Append(save_requests, item)]_vars

\* C7: f outside the History view changes nothing: not the lists, the view
\* flags or the selection indices, and no persistence is triggered.
C7_PromoteOnlyInHistory ==
    [][(key' = "f" /\ ~app_state.show_history) =>
         /\ app_state' = app_state
         /\ save_requests' = save_requests
         /\ favorites_file' = favorites_file
         /\ save_result' = "none"
         /\ outcome' = outcome]_vars

\* C7 witness: f was handled in the Favorites view while History had an
\* entry at the index the promotion would read.
C7_Witness ==
    /\ key = "f"
    /\ app_state.show_favorites
    /\ app_state.selected_folder < Len(app_state.history)
    /\ outcome = "running"

\* C8: a failed favorites write does not end the input loop and does not
\* change the view flags or the selection indices.
C8_SaveFailureNonFatal ==
    [][save_result' = "err" =>
         /\ outcome' = "running"
         /\ app_state'.show_history = app_state.show_history
         /\ app_state'.show_favorites = app_state.show_favorites
         /\ app_state'.selected_folder = app_state.selected_folder
         /\ app_state'.selected_favorite = app_state.selected_favorite]_vars

\* C9: after a failed favorites write the in-memory Favorites list holds the
\* newly promoted item at its end.
C9_SaveFailureKeepsItem ==
    [][save_result' = "err" =>
         app_state'.favorites =
            Append(app_state.favorites,
                   save_requests'[Len(save_requests')])]_vars

\* C10: whenever main has returned (quit, draw error, poll or read error,
\* persistence error) the terminal is restored: raw mode is disabled and the
\* alternate screen is left.
C10_TerminalRestoredOnExit ==
    MainReturned => (~raw_mode /\ ~alternate_screen)

\* ------------------------------------------------------- views and cursors
\* the view the renderers draw: show_favorites is tested first
ViewOf(s) ==
    IF s.show_favorites THEN "Favorites"
    ELSE IF s.show_history THEN "History" ELSE "Folders"

\* the list of the active view
ActiveLen(s) ==
    IF s.show_favorites THEN Len(s.favorites)
    ELSE IF s.show_history THEN Len(s.history) ELSE Len(s.folders)

\* the index that addresses the active view's list: selected_favorite in
\* Favorites, selected_folder in Folders and (through the 'f' arm) in History
ActiveIndex(s) ==
    IF s.show_favorites THEN s.selected_favorite ELSE s.selected_folder

\* the index that does not belong to the active view
OtherIndex(s) ==
    IF s.show_favorites THEN s.selected_folder ELSE s.selected_favorite

\* the order written in the comment of the Tab arm
TabSuccessor(v) ==
    CASE v = "Folders"   -> "History"
      [] v = "History"   -> "Favorites"
      [] v = "Favorites" -> "Folders"

\* app states the loop of fn main can reach from s0 by navigation keys alone
RECURSIVE MainNavReach(_, _, _)
MainNavReach(frontier, seen, oc) ==
    IF frontier = {} THEN seen
    ELSE LET succ == { MainMatch(s, k, oc, TRUE) :
                          s \in frontier, k \in {"j", "k", "h", "F", "Tab"} }
             next == { r.app : r \in { x \in succ : x.flow = "continue" } }
             new  == { s \in next : WithinCaps(s) } \ seen
         IN MainNavReach(new, seen \cup new, oc)

\* C11: in every view, History included, MoveDown below the last item moves
\* the active view's index up by exactly 1 and MoveUp above 0 moves it down
\* by exactly 1, and the other index does not change.
C11_MoveStepsByOne ==
    [][/\ (key' \in {"j", "Down"}
            /\ ActiveIndex(app_state) + 1 < ActiveLen(app_state))
          => /\ ActiveIndex(app_state') = ActiveIndex(app_state) + 1
             /\ OtherIndex(app_state') = OtherIndex(app_state)
       /\ (key' \in {"k", "Up"}
            /\ ActiveIndex(app_state) > 0
            /\ ActiveIndex(app_state) < ActiveLen(app_state))
          => /\ ActiveIndex(app_state') = ActiveIndex(app_state) - 1
             /\ OtherIndex(app_state') = OtherIndex(app_state)]_vars

C17_ListsAppendOnly ==
    [][/\ app_state'.folders = app_state.folders
       /\ app_state'.history = app_state.history
       /\ Len(app_state'.favorites) >= Len(app_state.favorites)
       /\ SubSeq(app_state'.favorites, 1, Len(app_state.favorites))
             = app_state.favorites]_vars

\* C17 witness: a promotion was appended behind an existing favorite.
C17_Witness ==
    /\ key = "f"
    /\ save_result = "ok"
    /\ Len(app_state.favorites) >= 2

\* C18: for a list longer than the visible window the selection stays inside
\* the window: scroll_offset <= selected_index <= scroll_offset + height - 1.
C18_SelectionInsideWindow ==
    /\ (Len(app_state.folders) > WindowHeight
          /\ app_state.selected_folder < Len(app_state.folders))
       => /\ ScrollOffset(app_state) <= app_state.selected_folder
          /\ app_state.selected_folder
                <= ScrollOffset(app_state) + WindowHeight - 1
    /\ (Len(app_state.favorites) > WindowHeight
          /\ app_state.selected_favorite < Len(app_state.favorites))
       => /\ ScrollOffset(app_state) <= app_state.selected_favorite
          /\ app_state.selected_favorite
                <= ScrollOffset(app_state) + WindowHeight - 1

\* C19: from every reachable state of UI::handle_events three Tab presses
\* return to the starting view, each Tab goes to the next view of
\* Folders -> History -> Favorites -> Folders, and after each Tab at most one
\* of show_history / show_favorites is true.
C19_TabCycle ==
    driver = "gui" =>
       LET t1 == GuiKeyTab(app_state).app
           t2 == GuiKeyTab(t1).app
           t3 == GuiKeyTab(t2).app
       IN /\ t3 = app_state
          /\ ViewOf(t1) = TabSuccessor(ViewOf(app_state))
          /\ ViewOf(t2) = TabSuccessor(ViewOf(t1))
          /\ \A t \in {t1, t2, t3} : ~(t.show_history /\ t.show_favorites)

\* C19 witness: a Tab press has brought UI::handle_events back to Folders.
C19_Witness ==
    /\ key = "Tab"
    /\ driver = "gui"
    /\ ViewOf(app_state) = "Folders"
    /\ outcome = "running"

\* C20: from the initial state of the loop of fn main, for every index i of
\* History there is a sequence of key events after which f appends history[i]
\* to Favorites.  Stated for configurations with at least one folder.
C20_EveryHistoryItemPromotable ==
    (/\ driver = "main" /\ key = "none" /\ outcome = "running"
     /\ Len(app_state.folders) >= 1) =>
       \A i \in 1..Len(app_state.history) :
          \E s \in MainNavReach({app_state}, {app_state}, overflow_checks) :
             /\ s.show_history
             /\ MainKeyF(s, TRUE).app.favorites
                   = Append(s.favorites, app_state.history[i])

\* ------------------------------------------------------ the file formats
\* the text that precedes the ':' a delimiter line ends in
BeforeDelimiter(line) == SubSeq(line, 1, Len(line) - 1)

\* a line that is not blank
NonBlank(line) == \E i \in 1..Len(line) : line[i] # " "

\* a line that contains the separator
HasSpace(line) == \E i \in 1..Len(line) : line[i] = " "

\* the positions of the delimiter lines, and the k-th of them
DelimiterLines(lines) == { i \in 1..Len(lines) : EndsWithColon(lines[i]) }

NthDelimiter(lines, k) ==
    CHOOSE i \in DelimiterLines(lines) :
       Cardinality({ j \in DelimiterLines(lines) : j < i }) = k - 1

\* where the section of the k-th delimiter line ends
SectionEnd(lines, k) ==
    IF k < Cardinality(DelimiterLines(lines))
    THEN NthDelimiter(lines, k + 1) - 1
    ELSE Len(lines)

\* C13: load_folders_conf turns the lines of a readable config file into one
\* folder per line ending in ':', in file order, named by the text before
\* that ':', whose feeds are the non-blank lines up to the next such line or
\* the end of the file; the News/Music file gives two folders of one feed.
C13_ConfigParse ==
    (load_pc = "done" /\ load_fn = "load_folders_conf" /\ load_out.ok) =>
       LET lines == disk.lines
           v == load_out.value
       IN /\ Len(v) = Cardinality(DelimiterLines(lines))
          /\ \A k \in 1..Len(v) :
                LET d == NthDelimiter(lines, k) IN
                /\ v[k].name = BeforeDelimiter(lines[d])
                /\ v[k].feeds =
                      SelectSeq(SubSeq(lines, d + 1, SectionEnd(lines, k)),
                                NonBlank)
          /\ lines = ScenarioLines =>
                v = << [name |-> BeforeDelimiter(ScenarioLines[1]),
                        feeds |-> <<ScenarioLines[2]>>],
                       [name |-> BeforeDelimiter(ScenarioLines[3]),
                        feeds |-> <<ScenarioLines[4]>>] >>

\* C14: on a missing config file load_folders_conf persists a default and
\* returns one folder with one feed, which the persisted file loads to again;
\* it fails only on unrecoverable I/O, and a file that cannot be read
\* (permission denied) is not treated as missing: the load fails and the file
\* is left as it is.
C14_MissingConfig ==
    [][load_fn' = "load_folders_conf" =>
         /\ (disk.state = "missing" /\ disk.writable) =>
               /\ load_out'.ok
               /\ Len(load_out'.value) = 1
               /\ Len(load_out'.value[1].feeds) = 1
               /\ load_folders_conf(disk').out = load_out'
         /\ ~load_out'.ok =>
               \/ disk.state = "unreadable"
               \/ (disk.state = "missing" /\ ~disk.writable)
         /\ disk.state = "unreadable" =>
               (~load_out'.ok /\ disk' = disk)]_vars

\* C15: saving a folder list in the config format and loading it gives the
\* same folder list back, also when a name or a URL ends in ':'.  Stated for
\* folder lists whose feed URLs are not blank.
C15_ConfigRoundTrip ==
    (/\ load_pc = "done" /\ load_fn = "save_then_load"
     /\ \A k \in 1..Len(load_in) :
           \A u \in 1..Len(load_in[k].feeds) : NonBlank(load_in[k].feeds[u]))
    => (load_out.ok /\ load_out.value = load_in)

\* C16: load_history and load_favorites keep, in file order, exactly the
\* lines that contain a space, each split at its first space into the title
\* before it and the url after it; lines without a space are skipped and the
\* load does not fail.
C16_EntriesSplitOnFirstSpace ==
    (load_pc = "done" /\ load_fn \in {"load_history", "load_favorites"}) =>
       LET kept == SelectSeq(disk.lines, HasSpace)
           v == load_out.value
       IN /\ load_out.ok
          /\ Len(v) = Len(kept)
          /\ \A i \in 1..Len(v) :
                /\ ~HasSpace(v[i].title)
                /\ v[i].title \o <<" ">> \o v[i].url = kept[i]

\* C16 witness: load_history read a file with a plain entry, an entry whose
\* url part has a further space, and a line without a space.
C16_Witness ==
    /\ load_pc = "done"
    /\ load_fn = "load_history"
    /\ disk.lines = ScenarioEntries
    /\ Len(load_out.value) = 2

\* ------------------------------------------------- the two key handlers
\* the state in the Folders view, everything else as in s
AtFolders(s) == [s EXCEPT !.show_history = FALSE, !.show_favorites = FALSE]

\* C21: for every reachable application state and every key, the match of
\* fn main and the match of UI::handle_events give the same next state (view
\* flags, selection indices, lists) and the same quit decision, and the
\* match of fn main does not fail.
C21_HandlersEquivalent ==
    \A k \in KeyCodes, save_ok \in BOOLEAN :
       LET m == MainMatch(app_state, k, overflow_checks, save_ok)
           g == GuiMatch(app_state, k)
       IN /\ m.app = g.app
          /\ (m.flow = "break") = g.ret
          /\ m.flow \in {"continue", "break"}

\* C22 as claimed: from every reachable state, h pressed twice and F pressed
\* twice give the starting state back, in either handler.
C22_ToggleTwiceReturns ==
    /\ MainKeyH(MainKeyH(app_state).app).app = app_state
    /\ MainKeyShiftF(MainKeyShiftF(app_state).app).app = app_state
    /\ GuiKeyH(GuiKeyH(app_state).app).app = app_state
    /\ GuiKeyShiftF(GuiKeyShiftF(app_state).app).app = app_state

\* C22 as amended: h pressed twice gives the starting state back from Folders
\* and from History, and ends in Folders from Favorites; F pressed twice
\* gives the starting state back from Folders and from Favorites, and ends in
\* Folders from History; lists and selection indices are unchanged in every
\* case.
C22_ToggleTwice ==
    LET hh == MainKeyH(MainKeyH(app_state).app).app
        ff == MainKeyShiftF(MainKeyShiftF(app_state).app).app
        gh == GuiKeyH(GuiKeyH(app_state).app).app
        gf == GuiKeyShiftF(GuiKeyShiftF(app_state).app).app
    IN /\ hh = IF ViewOf(app_state) = "Favorites"
               THEN AtFolders(app_state) ELSE app_state
       /\ ff = IF ViewOf(app_state) = "History"
               THEN AtFolders(app_state) ELSE app_state
       /\ gh = hh
       /\ gf = ff

\* C22 witness: in the loop of fn main h has just left the History view,
\* which only h enters there, with a folder other than the first selected.
C22_Witness ==
    /\ driver = "main"
    /\ key = "h"
    /\ ViewOf(app_state) = "Folders"
    /\ app_state.selected_folder > 0
    /\ outcome = "running"
====
